---- MODULE Spec2Model ----
(***************************************************************************)
(* The displayed-tile cache of galileo (src/galileo/src/layer/tiles.rs):   *)
(* TilesContainer, its ordered map of DisplayedTile entries, the fade-in   *)
(* duration kept in an AtomicU64, and update_displayed_tiles; and the       *)
(* TileSchemaBuilder of src/galileo/src/tile_schema/builder.rs.            *)
(*                                                                         *)
(* Numbers.  Instants and elapsed times are whole milliseconds.  An        *)
(* opacity is the exact fraction <<n, d>> in lowest terms that the f64     *)
(* division of line 84 is rounded from; for the numerators and             *)
(* denominators of this model (below 2^24) the cast to f32 is injective    *)
(* and order preserving, and only a quotient >= 1 becomes 1.0.             *)
(* A Duration is [hi, ms, sub]: its millisecond count is hi * 2^64 + ms    *)
(* and sub is the part below one millisecond, in nanoseconds.              *)
(***************************************************************************)
EXTENDS Integers, Sequences, FiniteSets, TLC

VARIABLES
    tiles,   \* TilesContainer.tiles: the ordered map, a sequence of entries
    fade,    \* TilesContainer.fade_in_duration: the AtomicU64, milliseconds
    clock,   \* what web_time::Instant::now() returns, milliseconds
    calls,   \* the number of update_displayed_tiles calls made so far
    last,    \* the latest call on the container: its inputs and its result
    lock,    \* the Mutex around tiles: the thread that holds it, or NoThread
    thr,     \* per thread, the locals of its update_displayed_tiles call
    builder, \* a TileSchemaBuilder under construction, or None
    result   \* the latest build(): the builder consumed and what it returned

vars == <<tiles, fade, clock, calls, last, lock, thr, builder, result>>

----------------------------------------------------------------------------
(* Bounds of the model *)

\* The longest request (needed_indices) of one update_displayed_tiles call.
MaxNeeded == 2

\* The number of update_displayed_tiles calls of one run.
MaxCalls == 3

\* The clock stops at this instant.
MaxNow == 1000

\* The clock is read only near multiples of this period.
SamplePeriod == 1000

\* The provider hands out bundles 1..MaxBundle.
MaxBundle == 1

\* The update_displayed_tiles calls that threads make side by side.
MaxThreadCalls == 3

\* The zoom levels handed to the builder are 0..MaxZ.
MaxZ == 2

\* The longest list of zoom levels handed to the builder.
MaxZLevels == 2

----------------------------------------------------------------------------
(* Values *)

DEFAULT_FADE_IN_DURATION == 300

\* Tile indices: a parent tile "P", its two children "A" and "B", and an
\* index "X" outside the schema.
Indices == {"P", "A", "B", "X"}

Styles == {"s1"}

None == <<>>

Some(x) == <<x>>

\* TileSchema::tile_bbox: the box of an index as the set of ground cells it
\* covers, None for an index outside the schema.
tile_bbox(index) ==
    CASE index = "P" -> Some({1, 2})
      [] index = "A" -> Some({1})
      [] index = "B" -> Some({2})
      [] OTHER -> None

\* Rect::intersects
intersects(a, b) == a \cap b # {}

\* Opacities: fractions in lowest terms.
RECURSIVE Gcd(_, _)
Gcd(a, b) == IF b = 0 THEN a ELSE Gcd(b, a % b)

Frac(n, d) == <<n \div Gcd(n, d), d \div Gcd(n, d)>>

Zero == <<0, 1>>

One == <<1, 1>>

Leq(p, q) == p[1] * q[2] <= q[1] * p[2]

\* DisplayedTile::is_opaque: opacity >= 0.999
is_opaque(tile) == tile.opacity[1] * 1000 >= 999 * tile.opacity[2]

\* Duration::from_millis
from_millis(ms) == [hi |-> 0, ms |-> ms, sub |-> 0]

\* The millisecond count rounded to the nearest instead of cut.
as_millis_u64_Rounded(d) == IF d.sub >= 500000 THEN d.ms + 1 ELSE d.ms

\* Duration::as_millis() as u64: the low 64 bits of the millisecond count.
as_millis_u64(d) == d.ms

----------------------------------------------------------------------------
(* The ordered map *)

KeyOf(tile) == <<tile.index, tile.style_id>>

Keys(m) == {KeyOf(m[i]) : i \in 1..Len(m)}

Pos(m, key) == CHOOSE i \in 1..Len(m) : KeyOf(m[i]) = key

Get(m, key) == m[Pos(m, key)]

\* OrderedHashMap::remove
MapRemove(m, key) == SelectSeq(m, LAMBDA t : KeyOf(t) # key)

\* OrderedHashMap::insert: the entry goes to the end of the order.
MapInsert(m, tile) == Append(MapRemove(m, KeyOf(tile)), tile)

----------------------------------------------------------------------------
(* update_displayed_tiles *)

\* TilesContainer::fade_in_duration
fade_in_duration_of(atomic) == from_millis(atomic)

\* requires_animation with the threshold at 0.
requires_animation_of_NonZero(atomic) == atomic > 0

\* TilesContainer::requires_animation
requires_animation_of(atomic) == atomic > 1

\* FadedOpacity without the .min(1.0) of line 85.
FadedOpacity_NoMin(displayed_at, now, fade_in_time) ==
    IF fade_in_time.ms > 1
    THEN Frac(now - displayed_at, fade_in_time.ms)
    ELSE One

\* Lines 82-88: the opacity of a tile that is still fading.  fade_in_time
\* comes from from_millis, so it is a whole number of milliseconds, and
\* fade_in_secs > 0.001 says that it is more than one.
FadedOpacity(displayed_at, now, fade_in_time) ==
    IF fade_in_time.ms > 1
    THEN IF now - displayed_at >= fade_in_time.ms
         THEN One
         ELSE Frac(now - displayed_at, fade_in_time.ms)
    ELSE One

\* to_substitute.push(bbox) when the index has a box
PushBbox(to_substitute, index) ==
    IF tile_bbox(index) # None
    THEN Append(to_substitute, tile_bbox(index)[1])
    ELSE to_substitute

\* ScanDisplayed asking for a redraw only when the opacity changes.
ScanDisplayed_RedrawOnChange(acc, index, style_id, now, fade_in_time) ==
    LET displayed == Get(acc.displayed_tiles, <<index, style_id>>)
        fading == ~is_opaque(displayed)
        updated == IF fading
                   THEN [displayed EXCEPT !.opacity =
                            FadedOpacity(displayed.displayed_at, now, fade_in_time)]
                   ELSE displayed
    IN  [displayed_tiles |-> MapRemove(acc.displayed_tiles, <<index, style_id>>),
         needed_tiles |-> Append(acc.needed_tiles, updated),
         to_substitute |-> IF fading THEN PushBbox(acc.to_substitute, index)
                           ELSE acc.to_substitute,
         requires_redraw |-> acc.requires_redraw \/ updated # displayed,
         branches |-> Append(acc.branches, IF fading THEN "fading" ELSE "opaque")]

\* ScanDisplayed with requires_redraw set outside the test of line 77.
ScanDisplayed_AlwaysRedraw(acc, index, style_id, now, fade_in_time) ==
    LET displayed == Get(acc.displayed_tiles, <<index, style_id>>)
        fading == ~is_opaque(displayed)
        updated == IF fading
                   THEN [displayed EXCEPT !.opacity =
                            FadedOpacity(displayed.displayed_at, now, fade_in_time)]
                   ELSE displayed
    IN  [displayed_tiles |-> MapRemove(acc.displayed_tiles, <<index, style_id>>),
         needed_tiles |-> Append(acc.needed_tiles, updated),
         to_substitute |-> IF fading THEN PushBbox(acc.to_substitute, index)
                           ELSE acc.to_substitute,
         requires_redraw |-> TRUE,
         branches |-> Append(acc.branches, IF fading THEN "fading" ELSE "opaque")]

\* Lines 76-93: the index has an entry under the style.
ScanDisplayed(acc, index, style_id, now, fade_in_time) ==
    LET displayed == Get(acc.displayed_tiles, <<index, style_id>>)
        fading == ~is_opaque(displayed)
        updated == IF fading
                   THEN [displayed EXCEPT !.opacity =
                            FadedOpacity(displayed.displayed_at, now, fade_in_time)]
                   ELSE displayed
    IN  [displayed_tiles |-> MapRemove(acc.displayed_tiles, <<index, style_id>>),
         needed_tiles |-> Append(acc.needed_tiles, updated),
         to_substitute |-> IF fading THEN PushBbox(acc.to_substitute, index)
                           ELSE acc.to_substitute,
         requires_redraw |-> acc.requires_redraw \/ fading,
         branches |-> Append(acc.branches, IF fading THEN "fading" ELSE "opaque")]

\* ScanMissing without the fallback region of an unavailable index
\* (lines 96-100 left out).
ScanMissing_NoRegion(acc, index, style_id, now, anim, bundle) ==
    IF bundle = None
    THEN [acc EXCEPT !.branches = Append(acc.branches, "unavailable")]
    ELSE [displayed_tiles |-> acc.displayed_tiles,
          needed_tiles |-> Append(acc.needed_tiles,
              [index |-> index, bundle |-> bundle[1], style_id |-> style_id,
               opacity |-> IF requires_animation_of(anim) THEN Zero ELSE One,
               displayed_at |-> now]),
          to_substitute |-> PushBbox(acc.to_substitute, index),
          requires_redraw |-> TRUE,
          branches |-> Append(acc.branches, "fetched")]

\* ScanMissing without requires_redraw = true for a fetched tile (line 116
\* left out).
ScanMissing_NoRedraw(acc, index, style_id, now, anim, bundle) ==
    IF bundle = None
    THEN [acc EXCEPT !.to_substitute = PushBbox(acc.to_substitute, index),
                     !.branches = Append(acc.branches, "unavailable")]
    ELSE [displayed_tiles |-> acc.displayed_tiles,
          needed_tiles |-> Append(acc.needed_tiles,
              [index |-> index, bundle |-> bundle[1], style_id |-> style_id,
               opacity |-> IF requires_animation_of(anim) THEN Zero ELSE One,
               displayed_at |-> now]),
          to_substitute |-> PushBbox(acc.to_substitute, index),
          requires_redraw |-> acc.requires_redraw,
          branches |-> Append(acc.branches, "fetched")]

\* ScanMissing recording the box of a fetched tile only when the tile
\* fades in.
ScanMissing_RegionIfAnimated(acc, index, style_id, now, anim, bundle) ==
    IF bundle = None
    THEN [acc EXCEPT !.to_substitute = PushBbox(acc.to_substitute, index),
                     !.branches = Append(acc.branches, "unavailable")]
    ELSE [displayed_tiles |-> acc.displayed_tiles,
          needed_tiles |-> Append(acc.needed_tiles,
              [index |-> index, bundle |-> bundle[1], style_id |-> style_id,
               opacity |-> IF requires_animation_of(anim) THEN Zero ELSE One,
               displayed_at |-> now]),
          to_substitute |-> IF requires_animation_of(anim)
                            THEN PushBbox(acc.to_substitute, index)
                            ELSE acc.to_substitute,
          requires_redraw |-> TRUE,
          branches |-> Append(acc.branches, "fetched")]

\* ScanMissing asking for a redraw only when the fetched index has a box.
ScanMissing_RedrawIfBoxed(acc, index, style_id, now, anim, bundle) ==
    IF bundle = None
    THEN [acc EXCEPT !.to_substitute = PushBbox(acc.to_substitute, index),
                     !.branches = Append(acc.branches, "unavailable")]
    ELSE [displayed_tiles |-> acc.displayed_tiles,
          needed_tiles |-> Append(acc.needed_tiles,
              [index |-> index, bundle |-> bundle[1], style_id |-> style_id,
               opacity |-> IF requires_animation_of(anim) THEN Zero ELSE One,
               displayed_at |-> now]),
          to_substitute |-> PushBbox(acc.to_substitute, index),
          requires_redraw |-> acc.requires_redraw \/ tile_bbox(index) # None,
          branches |-> Append(acc.branches, "fetched")]

\* Lines 95-118: the index has no entry; the provider is asked.
ScanMissing(acc, index, style_id, now, anim, bundle) ==
    IF bundle = None
    THEN [acc EXCEPT !.to_substitute = PushBbox(acc.to_substitute, index),
                     !.branches = Append(acc.branches, "unavailable")]
    ELSE [displayed_tiles |-> acc.displayed_tiles,
          needed_tiles |-> Append(acc.needed_tiles,
              [index |-> index, bundle |-> bundle[1], style_id |-> style_id,
               opacity |-> IF requires_animation_of(anim) THEN Zero ELSE One,
               displayed_at |-> now]),
          to_substitute |-> PushBbox(acc.to_substitute, index),
          requires_redraw |-> TRUE,
          branches |-> Append(acc.branches, "fetched")]

\* Lines 75-120: the loop over needed_indices, from position i on.
RECURSIVE ScanNeeded(_, _, _, _, _, _, _, _)
ScanNeeded(acc, needed, i, style_id, now, fade_in_time, anim, provider) ==
    IF i > Len(needed) THEN acc
    ELSE LET index == needed[i]
             next == IF <<index, style_id>> \in Keys(acc.displayed_tiles)
                     THEN ScanDisplayed(acc, index, style_id, now, fade_in_time)
                     ELSE ScanMissing(acc, index, style_id, now, anim, provider[index])
         IN  ScanNeeded(next, needed, i + 1, style_id, now, fade_in_time, anim, provider)

\* Selected with the boxes compared for equality instead of intersection.
Selected_SameBox(displayed_tiles, subst_bbox) ==
    SelectSeq(displayed_tiles,
              LAMBDA t : /\ tile_bbox(t.index) # None
                         /\ tile_bbox(t.index)[1] = subst_bbox)

\* Selected without the continue of line 128: an entry without a box is
\* taken for every region.
Selected_KeepBoxless(displayed_tiles, subst_bbox) ==
    SelectSeq(displayed_tiles,
              LAMBDA t : \/ tile_bbox(t.index) = None
                         \/ intersects(tile_bbox(t.index)[1], subst_bbox))

\* Selected handing the entries over as fully faded in.
Selected_Finished(displayed_tiles, subst_bbox) ==
    LET sel == SelectSeq(displayed_tiles,
                         LAMBDA t : /\ tile_bbox(t.index) # None
                                    /\ intersects(tile_bbox(t.index)[1], subst_bbox))
    IN  [i \in 1..Len(sel) |-> [sel[i] EXCEPT !.opacity = One]]

\* Lines 126-134: the old entries whose box intersects the region.
Selected(displayed_tiles, subst_bbox) ==
    SelectSeq(displayed_tiles,
              LAMBDA t : /\ tile_bbox(t.index) # None
                         /\ intersects(tile_bbox(t.index)[1], subst_bbox))

\* Lines 136-142
RECURSIVE InsertAll(_, _)
InsertAll(m, ts) ==
    IF ts = <<>> THEN m ELSE InsertAll(MapInsert(m, Head(ts)), Tail(ts))

\* Substitute without the removal of line 137: an entry stays available to
\* the regions that follow.
RECURSIVE Substitute_NoRemove(_, _, _, _)
Substitute_NoRemove(displayed_tiles, new_displayed, to_substitute, j) ==
    IF j > Len(to_substitute) THEN new_displayed
    ELSE Substitute_NoRemove(displayed_tiles,
                             InsertAll(new_displayed,
                                       Selected(displayed_tiles, to_substitute[j])),
                             to_substitute, j + 1)

\* Lines 125-145: the loop over to_substitute, from region j on.
RECURSIVE Substitute(_, _, _, _)
Substitute(displayed_tiles, new_displayed, to_substitute, j) ==
    IF j > Len(to_substitute) THEN new_displayed
    ELSE LET selected == Selected(displayed_tiles, to_substitute[j])
             rest == SelectSeq(displayed_tiles,
                               LAMBDA t : KeyOf(t) \notin Keys(selected))
         IN  Substitute(rest, InsertAll(new_displayed, selected), to_substitute, j + 1)

\* Update with the requested tiles put into the new map before the fallbacks.
Update_NeededFirst(displayed, needed, style_id, now, atomic, anim, provider) ==
    LET acc0 == [displayed_tiles |-> displayed, needed_tiles |-> <<>>,
                 to_substitute |-> <<>>, requires_redraw |-> FALSE,
                 branches |-> <<>>]
        acc == ScanNeeded(acc0, needed, 1, style_id, now,
                          fade_in_duration_of(atomic), anim, provider)
        fallbacks == Substitute(acc.displayed_tiles, <<>>, acc.to_substitute, 1)
    IN  [tiles |-> InsertAll(InsertAll(<<>>, acc.needed_tiles), fallbacks),
         ret |-> acc.requires_redraw,
         to_substitute |-> acc.to_substitute,
         branches |-> acc.branches]

\* Lines 65-152: the whole call; anim is the value requires_animation loads.
Update(displayed, needed, style_id, now, atomic, anim, provider) ==
    LET acc0 == [displayed_tiles |-> displayed, needed_tiles |-> <<>>,
                 to_substitute |-> <<>>, requires_redraw |-> FALSE,
                 branches |-> <<>>]
        acc == ScanNeeded(acc0, needed, 1, style_id, now,
                          fade_in_duration_of(atomic), anim, provider)
        fallbacks == Substitute(acc.displayed_tiles, <<>>, acc.to_substitute, 1)
    IN  [tiles |-> InsertAll(fallbacks, acc.needed_tiles),
         ret |-> acc.requires_redraw,
         to_substitute |-> acc.to_substitute,
         branches |-> acc.branches]

----------------------------------------------------------------------------------------------------------------------------------------
(* The state machine *)

RECURSIVE SeqsUpTo(_, _)
SeqsUpTo(S, n) ==
    IF n = 0 THEN {<<>>}
    ELSE SeqsUpTo(S, n - 1) \cup {Append(s, x) : s \in SeqsUpTo(S, n - 1), x \in S}

NeededSeqs == SeqsUpTo(Indices, MaxNeeded)

Range(s) == {s[i] : i \in 1..Len(s)}

\* What TileProvider::get_tile answers during one call for the indices asked.
Providers(needed) == [Range(needed) -> {None} \cup {Some(b) : b \in 1..MaxBundle}]

\* The instants at which the clock is read.
ClockValues ==
    {t \in 0..MaxNow : t % SamplePeriod \in {0, SamplePeriod - 1}}

\* The durations a caller sets: 0, 1 ms, 1000.5 ms, and 2^64 ms.
Durations ==
    {[hi |-> 0, ms |-> 0, sub |-> 0], [hi |-> 0, ms |-> 1, sub |-> 0],
     [hi |-> 0, ms |-> 1000, sub |-> 500000], [hi |-> 1, ms |-> 0, sub |-> 0]}

\* The threads that share the container.
Threads == {"t1", "t2"}

\* The Mutex is free.
NoThread == "none"

\* TilesContainer::new
Init ==
    /\ tiles = <<>>
    /\ fade = as_millis_u64(from_millis(DEFAULT_FADE_IN_DURATION))
    /\ clock = 0
    /\ calls = 0
    /\ last = [op |-> "new"]
    /\ lock = NoThread
    /\ thr = [t \in Threads |-> [pc |-> "idle"]]
    /\ builder = None
    /\ result = None

\* update_displayed_tiles(needed_indices, style_id).  The record kept in
\* last adds what a caller can observe of the call: the instant and the
\* duration it read, the keys it dropped, whether it repeats the call
\* before it with no time passed (again), and whether that call had found
\* every requested index displayed and opaque (settled).
UpdateDisplayedTiles ==
    /\ calls < MaxCalls
    /\ \E needed \in NeededSeqs, style_id \in Styles :
         \E provider \in Providers(needed) :
            \E r \in {Update(tiles, needed, style_id, clock, fade, fade, provider)} :
                /\ tiles' = r.tiles
                /\ last' = [op |-> "update", needed |-> needed,
                            style_id |-> style_id, now |-> clock,
                            fade |-> fade, ret |-> r.ret,
                            to_substitute |-> r.to_substitute,
                            branches |-> r.branches,
                            evicted |-> Keys(tiles) \ Keys(r.tiles),
                            again |-> /\ last.op = "update"
                                      /\ last.needed = needed
                                      /\ last.style_id = style_id
                                      /\ last.now = clock,
                            settled |-> /\ last.op = "update"
                                        /\ last.needed = needed
                                        /\ last.style_id = style_id
                                        /\ last.now = clock
                                        /\ \A i \in 1..Len(needed) :
                                             last.branches[i] = "opaque"]
    /\ calls' = calls + 1
    /\ UNCHANGED <<fade, clock, lock, thr, builder, result>>

\* set_fade_in_duration(duration)
SetFadeInDuration ==
    \E duration \in Durations :
        /\ fade' = as_millis_u64(duration)
        /\ last' = [op |-> "set_fade_in_duration", duration |-> duration]
        /\ UNCHANGED <<tiles, clock, calls, lock, thr, builder, result>>

\* Time passes between two calls.
Tick ==
    \E t \in ClockValues :
        /\ t > clock
        /\ clock' = t
        /\ UNCHANGED <<tiles, fade, calls, last, lock, thr, builder, result>>

Next == UpdateDisplayedTiles \/ SetFadeInDuration \/ Tick

Spec == Init /\ [][Next]_vars

----------------------------------------------------------------------------
(* The container shared by two styles *)

\* StyleId is a type parameter; a layer drawn with two styles asks for
\* tiles under either.
TwoStyles == {"s1", "s2"}

\* update_displayed_tiles(needed_indices, style_id) with either style.
UpdateStyled ==
    /\ calls < MaxCalls
    /\ \E needed \in NeededSeqs, style_id \in TwoStyles :
         \E provider \in Providers(needed) :
            \E r \in {Update(tiles, needed, style_id, clock, fade, fade, provider)} :
                /\ tiles' = r.tiles
                /\ last' = [op |-> "update", needed |-> needed,
                            style_id |-> style_id, now |-> clock,
                            fade |-> fade, ret |-> r.ret,
                            to_substitute |-> r.to_substitute,
                            branches |-> r.branches,
                            evicted |-> Keys(tiles) \ Keys(r.tiles)]
    /\ calls' = calls + 1
    /\ UNCHANGED <<fade, clock, lock, thr, builder, result>>

NextStyled == UpdateStyled \/ Tick

StyleSpec == Init /\ [][NextStyled]_vars

----------------------------------------------------------------------------
(* update_displayed_tiles called from several threads *)

\* Mutex::lock that does not wait for the holder.
CanLock_Always(mutex) == TRUE

\* Line 65: Mutex::lock returns once no thread holds the lock.
CanLock(mutex) == mutex = NoThread

\* The indices the threads ask for.
ThreadIndices == {"P", "A"}

ThreadNeeded == SeqsUpTo(ThreadIndices, MaxNeeded)

\* Lines 60-64: thread t calls update_displayed_tiles(needed, style_id).
CallUpdate(t) ==
    /\ thr[t].pc = "idle"
    /\ calls < MaxThreadCalls
    /\ \E needed \in ThreadNeeded, style_id \in Styles :
         \E provider \in Providers(needed) :
            thr' = [thr EXCEPT ![t] = [pc |-> "lock", needed |-> needed,
                                       style_id |-> style_id,
                                       provider |-> provider]]
    /\ calls' = calls + 1
    /\ UNCHANGED <<tiles, fade, clock, last, lock, builder, result>>

\* Lines 65-73: the thread gets the lock, reads the clock and loads the
\* fade duration.  snapshot keeps the map as the thread found it.
LockTiles(t) ==
    /\ thr[t].pc = "lock"
    /\ CanLock(lock)
    /\ lock' = t
    /\ thr' = [thr EXCEPT ![t] =
                 [pc |-> "scan", needed |-> thr[t].needed,
                  style_id |-> thr[t].style_id, provider |-> thr[t].provider,
                  i |-> 1, now |-> clock,
                  fade_in_time |-> fade_in_duration_of(fade),
                  snapshot |-> tiles, loads |-> <<>>,
                  needed_tiles |-> <<>>, to_substitute |-> <<>>,
                  requires_redraw |-> FALSE, branches |-> <<>>]]
    /\ UNCHANGED <<tiles, fade, clock, calls, last, builder, result>>

\* Lines 75-120, one iteration: the entry is removed from the shared map
\* through the guard; requires_animation loads the duration again.  loads
\* keeps the value of the atomic at each iteration.
ScanIndex(t) ==
    /\ thr[t].pc = "scan"
    /\ thr[t].i <= Len(thr[t].needed)
    /\ LET th == thr[t]
           index == th.needed[th.i]
           acc == [displayed_tiles |-> tiles, needed_tiles |-> th.needed_tiles,
                   to_substitute |-> th.to_substitute,
                   requires_redraw |-> th.requires_redraw,
                   branches |-> th.branches]
       IN  \E next \in {IF <<index, th.style_id>> \in Keys(tiles)
                         THEN ScanDisplayed(acc, index, th.style_id, th.now,
                                            th.fade_in_time)
                         ELSE ScanMissing(acc, index, th.style_id, th.now, fade,
                                          th.provider[index])} :
               /\ tiles' = next.displayed_tiles
               /\ thr' = [thr EXCEPT ![t] =
                            [th EXCEPT !.i = th.i + 1,
                                       !.loads = Append(th.loads, fade),
                                       !.needed_tiles = next.needed_tiles,
                                       !.to_substitute = next.to_substitute,
                                       !.requires_redraw = next.requires_redraw,
                                       !.branches = next.branches]]
    /\ UNCHANGED <<fade, clock, calls, last, lock, builder, result>>

\* Lines 122-153: the new map is built and installed, the guard is dropped
\* and the call returns.
Install(t) ==
    /\ thr[t].pc = "scan"
    /\ thr[t].i > Len(thr[t].needed)
    /\ tiles' = InsertAll(Substitute(tiles, <<>>, thr[t].to_substitute, 1),
                          thr[t].needed_tiles)
    /\ lock' = NoThread
    /\ last' = [op |-> "update", thread |-> t, ret |-> thr[t].requires_redraw]
    /\ thr' = [thr EXCEPT ![t] = [pc |-> "idle"]]
    /\ UNCHANGED <<fade, clock, calls, builder, result>>

\* Lines 159-162 on a thread of their own: the store, at any moment.
StoreFadeInDuration ==
    \E duration \in Durations :
        /\ fade' = as_millis_u64(duration)
        /\ UNCHANGED <<tiles, clock, calls, last, lock, thr, builder, result>>

\* The clock stands still here: a call reads it once, under the lock.
NextThreads ==
    \/ \E t \in Threads : CallUpdate(t)
    \/ \E t \in Threads : LockTiles(t)
    \/ \E t \in Threads : ScanIndex(t)
    \/ \E t \in Threads : Install(t)
    \/ StoreFadeInDuration

ThreadSpec == Init /\ [][NextThreads]_vars

\* Lines 75-120 run from position i on with the value that
\* requires_animation loaded at each position.
RECURSIVE ScanLoads(_, _, _, _, _, _, _, _)
ScanLoads(acc, needed, i, style_id, now, fade_in_time, loads, provider) ==
    IF i > Len(needed) THEN acc
    ELSE LET index == needed[i]
             next == IF <<index, style_id>> \in Keys(acc.displayed_tiles)
                     THEN ScanDisplayed(acc, index, style_id, now, fade_in_time)
                     ELSE ScanMissing(acc, index, style_id, now, loads[i], provider[index])
         IN  ScanLoads(next, needed, i + 1, style_id, now, fade_in_time, loads, provider)

\* The call of a thread run alone on the map it found: lines 65-152 with
\* the instant and the durations the thread read.
RunAlone(th) ==
    LET acc0 == [displayed_tiles |-> th.snapshot, needed_tiles |-> <<>>,
                 to_substitute |-> <<>>, requires_redraw |-> FALSE,
                 branches |-> <<>>]
        acc == ScanLoads(acc0, th.needed, 1, th.style_id, th.now,
                         th.fade_in_time, th.loads, th.provider)
        fallbacks == Substitute(acc.displayed_tiles, <<>>, acc.to_substitute, 1)
    IN  [tiles |-> InsertAll(fallbacks, acc.needed_tiles),
         ret |-> acc.requires_redraw]

----------------------------------------------------------------------------
(* TileSchemaBuilder *)

TILE_SIZE == 256

\* Result::Ok and Result::Err
Ok(value) == [ok |-> TRUE, value |-> value]

Err(error) == [ok |-> FALSE, error |-> error]

\* A resolution is the fraction <<n, d>> of bounds.width(); f64::NAN is
\* <<0, 0>> and the infinity of a division by zero is <<1, 0>>.
NaN == <<0, 0>>

Infinity == <<1, 0>>

RECURSIVE powi(_, _)
powi(base, n) == IF n = 0 THEN 1 ELSE base * powi(base, n - 1)

\* Lines 53 and 59: top_resolution / 2^z
Resolution(tile_width, z) ==
    IF tile_width = 0 THEN Infinity ELSE <<1, tile_width * powi(2, z)>>

\* Line 55: the largest of the zoom levels
MaxOf(z_levels) ==
    CHOOSE z \in Range(z_levels) : \A y \in Range(z_levels) : y <= z

\* Lines 53-63: the vector of resolutions, one slot per level 0..max_z_level.
LodsOf(z_levels, tile_width) ==
    [k \in 1..(MaxOf(z_levels) + 1) |->
        IF (k - 1) \in Range(z_levels) THEN Resolution(tile_width, k - 1) ELSE NaN]

\* build with the tile size examined before the zoom levels.
build_SizeFirst(self) ==
    IF self.tile_width = 0 \/ self.tile_height = 0
    THEN Err([kind |-> "InvalidTileSize",
              width |-> self.tile_width, height |-> self.tile_height])
    ELSE IF self.z_levels = <<>>
         THEN Err([kind |-> "NoZLevelsProvided"])
         ELSE Ok([lods |-> LodsOf(self.z_levels, self.tile_width),
                  tile_width |-> self.tile_width,
                  tile_height |-> self.tile_height])

\* TileSchemaBuilder::build
build(self) ==
    IF self.z_levels = <<>>
    THEN Err([kind |-> "NoZLevelsProvided"])
    ELSE IF self.tile_width = 0 \/ self.tile_height = 0
         THEN Err([kind |-> "InvalidTileSize",
                   width |-> self.tile_width, height |-> self.tile_height])
         ELSE Ok([lods |-> LodsOf(self.z_levels, self.tile_width),
                  tile_width |-> self.tile_width,
                  tile_height |-> self.tile_height])

\* TileSchemaBuilder::web_mercator_base; origin, bounds and y_direction are
\* the same in every builder and left out.
web_mercator_base == [z_levels |-> <<>>, tile_width |-> 0, tile_height |-> 0]

\* TileSchemaBuilder::with_logarithmic_z_levels
with_logarithmic_z_levels(self, z_levels) == [self EXCEPT !.z_levels = z_levels]

\* TileSchemaBuilder::with_rect_tile_size
with_rect_tile_size(self, tile_size) ==
    [self EXCEPT !.tile_width = tile_size, !.tile_height = tile_size]

\* TileSchemaBuilder::web_mercator
web_mercator(z_levels) ==
    with_rect_tile_size(with_logarithmic_z_levels(web_mercator_base, z_levels),
                        TILE_SIZE)

\* The lists of zoom levels and the tile sizes a caller passes.
ZLevelSeqs == SeqsUpTo(0..MaxZ, MaxZLevels)

TileSizes == {0, 1, TILE_SIZE}

\* let builder = TileSchemaBuilder::web_mercator(z_levels)
WebMercator ==
    \E z_levels \in ZLevelSeqs :
        /\ builder' = Some(web_mercator(z_levels))
        /\ UNCHANGED <<tiles, fade, clock, calls, last, lock, thr, result>>

\* let builder = builder.with_rect_tile_size(tile_size)
WithRectTileSize ==
    /\ builder # None
    /\ \E tile_size \in TileSizes :
         builder' = Some(with_rect_tile_size(builder[1], tile_size))
    /\ UNCHANGED <<tiles, fade, clock, calls, last, lock, thr, result>>

\* let result = builder.build(): the builder is moved into the call.
Build ==
    /\ builder # None
    /\ result' = Some([self |-> builder[1], returned |-> build(builder[1])])
    /\ builder' = None
    /\ UNCHANGED <<tiles, fade, clock, calls, last, lock, thr>>

NextBuild == WebMercator \/ WithRectTileSize \/ Build

BuildSpec == Init /\ [][NextBuild]_vars

----------------------------------------------------------------------------
(* Vocabulary of the properties *)

Entries(m) == {m[i] : i \in 1..Len(m)}

HasBbox(index) == tile_bbox(index) # None

BoxOf(index) == tile_bbox(index)[1]

\* The boxes of two indices are defined and intersect.
Overlap(a, b) == HasBbox(a) /\ HasBbox(b) /\ intersects(BoxOf(a), BoxOf(b))

\* A step of update_displayed_tiles: the unprimed variables are the
\* container before the call, the primed ones after it.
UpdateStep == calls' = calls + 1

\* The key was asked for in the call recorded in l.
Requested(l, key) == key[2] = l.style_id /\ key[1] \in Range(l.needed)

\* The positions of the request at which the call took the given branch.
At(l, branch) == {i \in 1..Len(l.needed) : l.branches[i] = branch}

----------------------------------------------------------------------------
(* C1 *)

\* C1: after update_displayed_tiles, for every requested index c with a box,
\* if the map before the call held an entry whose box intersects c's, the
\* new map holds the key (c, style) or an entry whose box intersects c's.
C1_NoGap ==
    [][UpdateStep =>
        \A c \in Range(last'.needed) :
            (HasBbox(c) /\ \E t \in Entries(tiles) : Overlap(t.index, c))
            => \/ <<c, last'.style_id>> \in Keys(tiles')
               \/ \E t \in Entries(tiles') : Overlap(t.index, c)]_vars

\* A call found a requested index unavailable and kept an old entry, not
\* requested itself, that covers it.
C1_Witness ==
    /\ last.op = "update"
    /\ \E i \in At(last, "unavailable") :
         /\ <<last.needed[i], last.style_id>> \notin Keys(tiles)
         /\ \E t \in Entries(tiles) :
              /\ ~Requested(last, KeyOf(t))
              /\ Overlap(t.index, last.needed[i])

----------------------------------------------------------------------------
(* C2 *)

\* C2: an entry that update_displayed_tiles drops was not asked for in the
\* call, and its box intersects none of the fallback regions the call
\* recorded.
C2_Eviction ==
    [][UpdateStep =>
        \A t \in Entries(tiles) :
            KeyOf(t) \notin Keys(tiles')
            => /\ ~Requested(last', KeyOf(t))
               /\ \A j \in 1..Len(last'.to_substitute) :
                    ~(HasBbox(t.index)
                      /\ intersects(BoxOf(t.index), last'.to_substitute[j]))]_vars

\* A call recorded a fallback region, kept an old entry for it and dropped
\* another entry that has a box.
C2_Witness ==
    /\ last.op = "update"
    /\ last.to_substitute # <<>>
    /\ \E key \in last.evicted : HasBbox(key[1])
    /\ \E t \in Entries(tiles) : ~Requested(last, KeyOf(t))

----------------------------------------------------------------------------
(* C3 *)

\* C3: across an update_displayed_tiles call, whatever set_fade_in_duration
\* calls came before it, the opacity of a key that is in the map before and
\* after the call does not decrease.
C3_MonotonicOpacity ==
    [][UpdateStep =>
        \A t \in Entries(tiles) :
            KeyOf(t) \in Keys(tiles')
            => Leq(t.opacity, Get(tiles', KeyOf(t)).opacity)]_vars

----------------------------------------------------------------------------
(* C4 *)

\* C4 as stated: after an update_displayed_tiles call every entry of the map
\* whose elapsed display time is at least the fade duration has opacity 1.0
\* (fallbacks and entries past the 0.999 threshold included), and an entry
\* with opacity 1.0 keeps it while its key remains.
C4_FullOpacityOfAll ==
    [][UpdateStep =>
        /\ \A t \in Entries(tiles') :
              clock - t.displayed_at >= fade => t.opacity = One
        /\ \A t \in Entries(tiles) :
              (t.opacity = One /\ KeyOf(t) \in Keys(tiles'))
              => Get(tiles', KeyOf(t)).opacity = One]_vars

\* C4 amended: after an update_displayed_tiles call every entry that was
\* requested in the call and was not at or above the 0.999 threshold before
\* it, and whose elapsed display time is at least the fade duration, has
\* opacity 1.0; an entry with opacity 1.0 keeps it while its key remains,
\* unless the call fetches that key anew from the provider.
C4_FullOpacity ==
    [][UpdateStep =>
        /\ \A t \in Entries(tiles') :
              ( /\ Requested(last', KeyOf(t))
                /\ ~(KeyOf(t) \in Keys(tiles) /\ is_opaque(Get(tiles, KeyOf(t))))
                /\ clock - t.displayed_at >= fade )
              => t.opacity = One
        /\ \A t \in Entries(tiles) :
              (t.opacity = One /\ KeyOf(t) \in Keys(tiles'))
              => \/ Get(tiles', KeyOf(t)).opacity = One
                 \/ \E i \in At(last', "fetched") :
                      KeyOf(t) = <<last'.needed[i], last'.style_id>>]_vars

\* A call recomputed a fading entry, displayed at an earlier instant, under
\* an animated duration that had elapsed, and the entry is at 1.0.
C4_Witness ==
    /\ last.op = "update"
    /\ last.fade > 1
    /\ \E i \in At(last, "fading") :
         LET t == Get(tiles, <<last.needed[i], last.style_id>>)
         IN  /\ t.displayed_at < last.now
             /\ last.now - t.displayed_at >= last.fade
             /\ t.opacity = One

----------------------------------------------------------------------------
(* C5 *)

\* C5 as stated: update_displayed_tiles returns true if and only if the call
\* inserted an entry from the provider or the opacity of an existing entry
\* differs from its value before the call.
C5_RedrawIffChanged ==
    [][UpdateStep =>
        (last'.ret <=>
            \/ At(last', "fetched") # {}
            \/ \E t \in Entries(tiles) :
                 /\ KeyOf(t) \in Keys(tiles')
                 /\ Get(tiles', KeyOf(t)).opacity # t.opacity)]_vars

\* C5 amended: update_displayed_tiles returns true if and only if the call
\* inserted an entry from the provider or a requested entry was below the
\* 0.999 threshold before the call, whether or not its opacity changes.
C5_Redraw ==
    [][UpdateStep =>
        (last'.ret <=>
            \/ At(last', "fetched") # {}
            \/ \E t \in Entries(tiles) :
                 Requested(last', KeyOf(t)) /\ ~is_opaque(t))]_vars

\* A call fetched nothing and returned true for an entry displayed at the
\* instant of the call, whose opacity stays 0.0.
C5_Witness ==
    /\ last.op = "update"
    /\ last.ret
    /\ last.fade > 1
    /\ At(last, "fetched") = {}
    /\ \E i \in At(last, "fading") :
         LET t == Get(tiles, <<last.needed[i], last.style_id>>)
         IN  t.displayed_at = last.now /\ t.opacity = Zero

----------------------------------------------------------------------------
(* C6 *)

\* C6 as stated: whenever the map after update_displayed_tiles differs from
\* the map before it (a key added or evicted, an opacity changed, the order
\* changed), the call returns true.
C6_AnyChangeSignalled ==
    [][(UpdateStep /\ tiles' # tiles) => last'.ret]_vars

\* C6 amended: whenever the map after update_displayed_tiles holds a key
\* that the map before it did not hold, or an entry whose opacity differs
\* from its opacity before the call, the call returns true.
C6_ChangeSignalled ==
    [][( /\ UpdateStep
         /\ \/ ~(Keys(tiles') \subseteq Keys(tiles))
            \/ \E t \in Entries(tiles) :
                 /\ KeyOf(t) \in Keys(tiles')
                 /\ Get(tiles', KeyOf(t)).opacity # t.opacity )
       => last'.ret]_vars

\* A call returned true after it fetched an entry and dropped another.
C6_Witness ==
    /\ last.op = "update"
    /\ last.ret
    /\ At(last, "fetched") # {}
    /\ last.evicted # {}

----------------------------------------------------------------------------
(* C7 *)

\* Every index of the request occurs in it once.
NoRepeat(needed) == Cardinality(Range(needed)) = Len(needed)

\* Every requested key is in the map m with opacity 1.0.
AllRequestedOpaque(m, needed, style_id) ==
    \A c \in Range(needed) :
        <<c, style_id>> \in Keys(m) /\ Get(m, <<c, style_id>>).opacity = One

\* C7 as stated, for a request without a repeated index: when every
\* requested key is in the map and fully opaque, a call that repeats the
\* request of the call before it, with the same style and no time passed,
\* leaves the map and its order as they were and returns false, also when
\* the map still holds fallbacks retained by the call before.
C7_IdempotentOnceOpaque ==
    [][( /\ UpdateStep
         /\ last'.again
         /\ NoRepeat(last'.needed)
         /\ AllRequestedOpaque(tiles, last'.needed, last'.style_id) )
       => (tiles' = tiles /\ ~last'.ret)]_vars

\* C7 amended: once a call has found every requested index displayed and
\* opaque, every further call with the same request, the same style and no
\* time passed leaves the map and its order as they were and returns false.
C7_Idempotent ==
    [][(UpdateStep /\ last'.settled) => (tiles' = tiles /\ ~last'.ret)]_vars

\* A call repeated a non-empty request that the call before it had found
\* displayed and opaque.
C7_Witness ==
    /\ last.op = "update"
    /\ last.settled
    /\ Len(last.needed) = MaxNeeded
    /\ Entries(tiles) # {}

----------------------------------------------------------------------------
(* C8 *)

\* The call asked for at least one index, none of them had an entry under
\* the style, and the provider returned an artifact for each.
FreshRequest(m, l) ==
    /\ l.needed # <<>>
    /\ \A c \in Range(l.needed) : <<c, l.style_id>> \notin Keys(m)
    /\ \A i \in 1..Len(l.needed) : l.branches[i] = "fetched"

\* After the call the map holds every requested key, displayed at the
\* instant now with the given opacity.
InsertedWith(m, l, now, opacity) ==
    \A c \in Range(l.needed) :
        /\ <<c, l.style_id>> \in Keys(m)
        /\ Get(m, <<c, l.style_id>>).displayed_at = now
        /\ Get(m, <<c, l.style_id>>).opacity = opacity

\* C8 as stated: a call whose requested indices are all fetched from the
\* provider leaves one entry per index, displayed at the call's instant,
\* with opacity 0.0 if the fade duration is greater than 0 (1 ms included)
\* and 1.0 otherwise, and returns true.
C8_FreshInsertionAboveZero ==
    [][(UpdateStep /\ FreshRequest(tiles, last'))
       => /\ InsertedWith(tiles', last', clock, IF fade > 0 THEN Zero ELSE One)
          /\ last'.ret]_vars

\* C8 amended: the opacity is 0.0 if the fade duration is greater than 1 ms
\* and 1.0 if it is 0 or 1 ms.
C8_FreshInsertion ==
    [][(UpdateStep /\ FreshRequest(tiles, last'))
       => /\ InsertedWith(tiles', last', clock, IF fade > 1 THEN Zero ELSE One)
          /\ last'.ret]_vars

\* A call under a duration of 1 ms fetched every index it asked for and
\* displays them at 1.0.
C8_Witness ==
    /\ last.op = "update"
    /\ last.fade = 1
    /\ last.ret
    /\ last.needed # <<>>
    /\ \A i \in 1..Len(last.needed) : last.branches[i] = "fetched"
    /\ InsertedWith(tiles, last, last.now, One)

----------------------------------------------------------------------------
(* C9 *)

\* The requested indices, among those at the given positions, whose box
\* intersects the box of the entry.
Covering(l, positions, t) ==
    {i \in positions : Overlap(t.index, l.needed[i])}

\* Every tile the call fetched is in the map with opacity 1.0.
FetchedOpaque(m, l) ==
    \A i \in At(l, "fetched") :
        Get(m, <<l.needed[i], l.style_id>>).opacity = One

\* C9 as stated: under a fade duration of 0 every tile the call fetches is
\* created with opacity 1.0, and no old entry is retained only because its
\* box intersects the box of a fetched tile.
C9_ZeroFadeNoFallback ==
    [][(UpdateStep /\ fade = 0)
       => /\ FetchedOpaque(tiles', last')
          /\ \A t \in Entries(tiles') :
                ~Requested(last', KeyOf(t))
                => Covering(last', At(last', "fading") \cup At(last', "unavailable"), t) # {}]_vars

\* C9 amended: under a fade duration of 0 every tile the call fetches is
\* created with opacity 1.0; the call retains every old entry, not requested
\* itself, whose box intersects the box of a fetched tile; and an entry is
\* retained only for a requested index that was fetched, still fading or
\* unavailable in this call, never for one found opaque.
C9_ZeroFade ==
    [][(UpdateStep /\ fade = 0)
       => /\ FetchedOpaque(tiles', last')
          /\ \A t \in Entries(tiles) :
                ( /\ ~Requested(last', KeyOf(t))
                  /\ Covering(last', At(last', "fetched"), t) # {} )
                => t \in Entries(tiles')
          /\ \A t \in Entries(tiles') :
                ~Requested(last', KeyOf(t))
                => Covering(last', At(last', "fetched") \cup At(last', "fading")
                                   \cup At(last', "unavailable"), t) # {}]_vars

\* A call under a duration of 0 kept an old entry whose box intersects only
\* the box of a tile the call fetched.
C9_Witness ==
    /\ last.op = "update"
    /\ last.fade = 0
    /\ FetchedOpaque(tiles, last)
    /\ \E t \in Entries(tiles) :
         /\ ~Requested(last, KeyOf(t))
         /\ Covering(last, At(last, "fetched"), t) # {}
         /\ Covering(last, At(last, "fading") \cup At(last, "unavailable"), t) = {}

----------------------------------------------------------------------------
(* C10 *)

\* C10 as stated: fade_in_duration() is 300 ms on a new container and,
\* after set_fade_in_duration(d), exactly d.
C10_ReadsBackExactly ==
    /\ last.op = "new"
       => fade_in_duration_of(fade) = [hi |-> 0, ms |-> 300, sub |-> 0]
    /\ last.op = "set_fade_in_duration"
       => fade_in_duration_of(fade) = last.duration

\* C10 amended: after set_fade_in_duration(d) it is d cut to whole
\* milliseconds, the millisecond count taken modulo 2^64.
C10_ReadsBackMillis ==
    /\ last.op = "new"
       => fade_in_duration_of(fade) = [hi |-> 0, ms |-> 300, sub |-> 0]
    /\ last.op = "set_fade_in_duration"
       => fade_in_duration_of(fade) = [hi |-> 0, ms |-> last.duration.ms, sub |-> 0]

\* A duration with a part below one millisecond was set.
C10_Witness ==
    /\ last.op = "set_fade_in_duration"
    /\ last.duration.sub > 0
    /\ fade_in_duration_of(fade) # last.duration

----------------------------------------------------------------------------
(* C14 *)

\* The first position of the index in the request.
FirstPos(needed, index) ==
    CHOOSE i \in 1..Len(needed) :
        needed[i] = index /\ \A j \in 1..(i - 1) : needed[j] # index

\* The request names the first index at a position before one at which it
\* names the second.
SuppliedBefore(needed, first, second) ==
    \E p, q \in 1..Len(needed) : p < q /\ needed[p] = first /\ needed[q] = second

\* C14: in the iteration order of the map after update_displayed_tiles,
\* every entry kept as a fallback comes before every entry of a requested
\* index, and the requested entries follow the order in which the request
\* names their indices.
C14_PaintOrder ==
    [][UpdateStep =>
        \A i, j \in 1..Len(tiles') :
            /\ ( /\ ~Requested(last', KeyOf(tiles'[i]))
                 /\ Requested(last', KeyOf(tiles'[j])) ) => i < j
            /\ ( /\ Requested(last', KeyOf(tiles'[i]))
                 /\ Requested(last', KeyOf(tiles'[j]))
                 /\ i < j )
               => SuppliedBefore(last'.needed, tiles'[i].index, tiles'[j].index)]_vars

\* A call left a fallback and the entries of two requested indices, the
\* second of which was in the old map before the fallback.
C14_Witness ==
    /\ last.op = "update"
    /\ Len(tiles) = 3
    /\ ~Requested(last, KeyOf(tiles[1]))
    /\ Requested(last, KeyOf(tiles[2]))
    /\ Requested(last, KeyOf(tiles[3]))
    /\ last.branches[2] # "fetched"

----------------------------------------------------------------------------
(* C16 *)

\* The boxes of the requested indices that have one and were not found
\* opaque, in the order of the request.
BoxedRegions(l) ==
    LET F[i \in 0..Len(l.needed)] ==
            IF i = 0 THEN <<>>
            ELSE IF HasBbox(l.needed[i]) /\ l.branches[i] # "opaque"
                 THEN Append(F[i - 1], BoxOf(l.needed[i]))
                 ELSE F[i - 1]
    IN  F[Len(l.needed)]

\* C16: a requested index without a box that has an entry, or for which the
\* provider returns an artifact, has an entry after the call; it adds no
\* fallback region, the regions being exactly the boxes of the other
\* requested indices that were not found opaque; and no entry kept as a
\* fallback is without a box.
C16_GeometryFailure ==
    [][UpdateStep =>
        /\ \A i \in 1..Len(last'.needed) :
              ( /\ ~HasBbox(last'.needed[i])
                /\ \/ <<last'.needed[i], last'.style_id>> \in Keys(tiles)
                   \/ last'.branches[i] = "fetched" )
              => <<last'.needed[i], last'.style_id>> \in Keys(tiles')
        /\ last'.to_substitute = BoxedRegions(last')
        /\ \A t \in Entries(tiles') :
              ~Requested(last', KeyOf(t)) => HasBbox(t.index)]_vars

\* A call found the entry of an index without a box still fading, kept it,
\* recorded a region for another index only, and dropped nothing else than
\* what that region does not cover.
C16_Witness ==
    /\ last.op = "update"
    /\ Len(last.needed) = 2
    /\ \E i \in At(last, "fading") :
         /\ ~HasBbox(last.needed[i])
         /\ <<last.needed[i], last.style_id>> \in Keys(tiles)
    /\ Len(last.to_substitute) = 1
    /\ \E t \in Entries(tiles) : ~Requested(last, KeyOf(t))

----------------------------------------------------------------------------
(* C17 *)

\* No requested index of the call has a box.
NoBoxRequested(l) == \A c \in Range(l.needed) : ~HasBbox(c)

\* C17 as stated: update_displayed_tiles returns true only on account of a
\* requested index that has a box; a call whose requested indices all lack
\* one returns false.
C17_NoRedrawWithoutBox ==
    [][UpdateStep =>
        (last'.ret => \E i \in At(last', "fetched") \cup At(last', "fading") :
                         HasBbox(last'.needed[i]))]_vars

\* C17 amended: a call whose requested indices all lack a box returns true
\* exactly when it inserts a tile from the provider or finds a requested
\* entry below the opacity threshold.
C17_RedrawWithoutBox ==
    [][(UpdateStep /\ NoBoxRequested(last'))
       => (last'.ret <=> At(last', "fetched") \cup At(last', "fading") # {})]_vars

\* A call whose only requested index has no box fetched it and returned
\* true.
C17_Witness ==
    /\ last.op = "update"
    /\ last.needed # <<>>
    /\ NoBoxRequested(last)
    /\ At(last, "fetched") # {}
    /\ last.ret

----------------------------------------------------------------------------
(* C18 *)

\* C18: across update_displayed_tiles an entry whose key stays in the map
\* keeps its displayed_at and its bundle, and an entry whose key is new was
\* fetched from the provider in this call for a key that had no entry.
C18_DisplayedAtImmutable ==
    [][UpdateStep =>
        /\ \A t \in Entries(tiles) :
              KeyOf(t) \in Keys(tiles')
              => /\ Get(tiles', KeyOf(t)).displayed_at = t.displayed_at
                 /\ Get(tiles', KeyOf(t)).bundle = t.bundle
        /\ \A t \in Entries(tiles') :
              KeyOf(t) \notin Keys(tiles)
              => /\ t.style_id = last'.style_id
                 /\ t.displayed_at = clock
                 /\ \E i \in At(last', "fetched") : last'.needed[i] = t.index]_vars

----------------------------------------------------------------------------
(* C19 *)

\* The request with every index kept at its first position only.
Dedup(needed) ==
    LET F[i \in 0..Len(needed)] ==
            IF i = 0 THEN <<>>
            ELSE IF \E j \in 1..(i - 1) : needed[j] = needed[i]
                 THEN F[i - 1]
                 ELSE Append(F[i - 1], needed[i])
    IN  F[Len(needed)]

\* What the provider answered when the call (recorded in l, leaving the map
\* m) first came to the index.
FirstAnswer(l, m, index) ==
    IF l.branches[FirstPos(l.needed, index)] = "fetched"
    THEN Some(Get(m, <<index, l.style_id>>).bundle)
    ELSE None

\* C19: a call whose request repeats an index leaves the map, and returns
\* the value, of the call with every index at its first position only.
C19_DuplicatesHarmless ==
    [][UpdateStep =>
        \E r \in {Update(tiles, Dedup(last'.needed), last'.style_id, clock, fade, fade,
                         [c \in Range(last'.needed) |-> FirstAnswer(last', tiles', c)])} :
            tiles' = r.tiles /\ last'.ret = r.ret]_vars

----------------------------------------------------------------------------
(* C15 *)

\* The entry has a box that intersects region j of the call.
Claims(l, j, t) == HasBbox(t.index) /\ intersects(BoxOf(t.index), l.to_substitute[j])

\* The first region, in recording order, that claims the entry.
FirstClaim(l, t) ==
    CHOOSE j \in 1..Len(l.to_substitute) :
        Claims(l, j, t) /\ \A k \in 1..(j - 1) : ~Claims(l, k, t)

\* C15: each old entry is moved into the new map at most once, and the
\* entries kept as fallbacks are ordered by the first region that claims
\* them and, under the same region, as they were in the old map.
C15_TieBreak ==
    [][UpdateStep =>
        /\ Cardinality(Keys(tiles')) = Len(tiles')
        /\ \A i, j \in 1..Len(tiles') :
              ( /\ i < j
                /\ ~Requested(last', KeyOf(tiles'[i]))
                /\ ~Requested(last', KeyOf(tiles'[j])) )
              => /\ \E k \in 1..Len(last'.to_substitute) : Claims(last', k, tiles'[i])
                 /\ \E k \in 1..Len(last'.to_substitute) : Claims(last', k, tiles'[j])
                 /\ \/ FirstClaim(last', tiles'[i]) < FirstClaim(last', tiles'[j])
                    \/ /\ FirstClaim(last', tiles'[i]) = FirstClaim(last', tiles'[j])
                       /\ Pos(tiles, KeyOf(tiles'[i])) < Pos(tiles, KeyOf(tiles'[j]))]_vars

\* A call with two regions kept first a fallback that both regions
\* intersect, claimed by the first, and after it a fallback that only the
\* second region intersects.
C15_Witness ==
    /\ last.op = "update"
    /\ Len(last.to_substitute) = 2
    /\ Len(tiles) >= 2
    /\ ~Requested(last, KeyOf(tiles[1]))
    /\ ~Requested(last, KeyOf(tiles[2]))
    /\ Claims(last, 1, tiles[1])
    /\ Claims(last, 2, tiles[1])
    /\ ~Claims(last, 1, tiles[2])
    /\ Claims(last, 2, tiles[2])

----------------------------------------------------------------------------
(* C20 *)

\* C20: an entry that update_displayed_tiles keeps without its key being
\* requested is the entry of the old map, with the same opacity,
\* displayed_at and bundle, whatever its style; and an entry whose key is
\* not requested is kept exactly when its box intersects a region of the
\* call, whatever its style.
C20_FallbackUnchanged ==
    [][UpdateStep =>
        /\ \A t \in Entries(tiles') :
              ~Requested(last', KeyOf(t)) => t \in Entries(tiles)
        /\ \A t \in Entries(tiles) :
              ~Requested(last', KeyOf(t))
              => (KeyOf(t) \in Keys(tiles')
                  <=> \E j \in 1..Len(last'.to_substitute) : Claims(last', j, t))]_vars

\* A call for one style, made after the fade time had passed, kept an entry
\* of the other style at the opacity below 1.0 it had, and dropped another
\* entry of the other style.
C20_Witness ==
    /\ last.op = "update"
    /\ \E t \in Entries(tiles) :
         /\ t.style_id # last.style_id
         /\ ~is_opaque(t)
         /\ last.now - t.displayed_at >= last.fade
    /\ \E key \in last.evicted : key[2] # last.style_id /\ HasBbox(key[1])

----------------------------------------------------------------------------
(* C13 *)

\* C13: build returns Ok exactly when the zoom levels are not empty and
\* both tile dimensions are non-zero; Err(NoZLevelsProvided) when the zoom
\* levels are empty, whatever the tile size; Err(InvalidTileSize) with the
\* configured width and height when the zoom levels are not empty and a
\* dimension is 0; and an error carries no schema.
C13_BuildResult ==
    result # None =>
        LET self == result[1].self
            returned == result[1].returned
        IN  /\ returned.ok <=> ( /\ self.z_levels # <<>>
                                 /\ self.tile_width # 0
                                 /\ self.tile_height # 0 )
            /\ self.z_levels = <<>>
               => returned = Err([kind |-> "NoZLevelsProvided"])
            /\ ( /\ self.z_levels # <<>>
                 /\ self.tile_width = 0 \/ self.tile_height = 0 )
               => returned = Err([kind |-> "InvalidTileSize",
                                  width |-> self.tile_width,
                                  height |-> self.tile_height])
            /\ ~returned.ok => DOMAIN returned = {"ok", "error"}
            /\ returned.ok
               => /\ returned.value.tile_width = self.tile_width
                  /\ returned.value.tile_height = self.tile_height

\* A builder with no zoom levels and a tile size of 0 was built and
\* NoZLevelsProvided came back.
C13_Witness ==
    /\ result # None
    /\ result[1].self.z_levels = <<>>
    /\ result[1].self.tile_width = 0
    /\ result[1].returned = Err([kind |-> "NoZLevelsProvided"])

----------------------------------------------------------------------------
(* C11 *)

\* The step completes the call of thread t.
Returns(t) == thr[t].pc = "scan" /\ thr'[t].pc = "idle"

\* C11: a thread is inside update_displayed_tiles, between taking the lock
\* and installing the new map, only while it holds the lock; the map
\* changes only by a step of the holder; and the map a call installs and
\* the value it returns are those of the call run alone on the map it found
\* when it took the lock.
C11_Serialised ==
    /\ [](\A t \in Threads : thr[t].pc = "scan" => lock = t)
    /\ [][ /\ tiles' # tiles
              => /\ lock \in Threads
                 /\ thr[lock].pc = "scan"
                 /\ \A u \in Threads \ {lock} : thr'[u] = thr[u]
           /\ \A t \in Threads :
                 Returns(t) => \E r \in {RunAlone(thr[t])} :
                                  tiles' = r.tiles /\ last'.ret = r.ret ]_vars

\* A thread holds the lock and has taken an entry out of the map while the
\* other thread has called update_displayed_tiles and waits for the lock.
C11_Witness ==
    \E t \in Threads, u \in Threads :
        /\ t # u
        /\ lock = t
        /\ thr[t].pc = "scan"
        /\ tiles # thr[t].snapshot
        /\ thr[u].pc = "lock"

----------------------------------------------------------------------------
(* C12 *)

\* The duration values the call used: the one behind fade_in_time and
\* those requires_animation loaded for the tiles it inserted.
UsedDurations(th) ==
    {as_millis_u64(th.fade_in_time)}
        \cup {th.loads[i] : i \in {k \in 1..Len(th.needed) : th.branches[k] = "fetched"}}

\* C12: whatever set_fade_in_duration does while a call is in flight, the
\* map the call installs and the value it returns are those of the call
\* made with one single duration, one of the values it read.
C12_SingleDuration ==
    [][\A t \in Threads :
         Returns(t)
         => \E f \in UsedDurations(thr[t]) :
               \E r \in {Update(thr[t].snapshot, thr[t].needed, thr[t].style_id,
                                thr[t].now, f, f, thr[t].provider)} :
                   tiles' = r.tiles /\ last'.ret = r.ret]_vars

====
